---- MODULE Spec2Model ----
(***************************************************************************)
(* B-spline evaluation by the Cox-de Boor recursion                        *)
(* (content/simd_benchmarking/benchmarking_code/src/lib.rs).               *)
(*                                                                         *)
(* The two functions of the crate, basis_activation and b_spline, are pure *)
(* functions over f64.  They are modelled as operators over a binary       *)
(* floating-point format with the structure of IEEE 754 binary64 (a        *)
(* significand of Precision bits, gradual underflow, round to nearest,     *)
(* ties to even, overflow to infinity, NaN) at a reduced width, so that    *)
(* rounding, overflow and the non-finite values are part of the model.     *)
(* Slice indexing panics when the index is out of bounds, and && is        *)
(* evaluated left to right with short circuit, as in the source.           *)
(***************************************************************************)
EXTENDS Integers, Sequences, FiniteSets

(***************************************************************************)
(* The floating-point format.  A finite value is an integer count of the   *)
(* smallest positive value 2^-FracBits; it belongs to the format when it   *)
(* has at most Precision significant bits and is at most MaxFinite.        *)
(* binary64 is Precision = 53, FracBits = 1074, MaxShift = 2045.           *)
(***************************************************************************)
Precision == 8
FracBits == 9
MaxShift == 5

One == 2 ^ FracBits
MaxFinite == (2 ^ Precision - 1) * 2 ^ MaxShift

NaN == <<"nan", 0>>
PosInf == <<"inf", 1>>
NegInf == <<"inf", -1>>
Fin(n) == <<"fin", n>>
Zero == Fin(0)

IsFin(a) == a[1] = "fin"
IsNaN(a) == a[1] = "nan"
IsInf(a) == a[1] = "inf"

Abs(n) == IF n < 0 THEN -n ELSE n
Sign(n) == IF n < 0 THEN -1 ELSE IF n > 0 THEN 1 ELSE 0

\* The number of significant bits of n >= 0.
RECURSIVE BitLen(_)
BitLen(n) ==
    IF n >= 16 THEN 4 + BitLen(n \div 16)
    ELSE IF n >= 8 THEN 4 ELSE IF n >= 4 THEN 3
    ELSE IF n >= 2 THEN 2 ELSE IF n >= 1 THEN 1 ELSE 0

\* Whether the integer n (a count of 2^-FracBits) is a value of the format.
Representable(n) ==
    /\ Abs(n) <= MaxFinite
    /\ LET L == BitLen(Abs(n))
       IN  L <= Precision \/ Abs(n) % (2 ^ (L - Precision)) = 0

\* The rational n/d (d > 0), in units of 2^-FracBits, rounded to the nearest
\* value of the format, ties to the even significand; beyond MaxFinite the
\* result is the infinity of its sign.
Round(n, d) ==
    LET a == Abs(n)
        L == BitLen(a \div d)
        Q == IF L > Precision THEN 2 ^ (L - Precision) ELSE 1
        t == a \div (d * Q)
        r == a % (d * Q)
        up == IF 2 * r > d * Q \/ (2 * r = d * Q /\ t % 2 = 1) THEN 1 ELSE 0
        m == (t + up) * Q
    IN  IF m > MaxFinite THEN <<"inf", Sign(n)>> ELSE Fin(Sign(n) * m)

\* The sign of a float that is not NaN (0 for zero; zero carries no sign).
SignOf(a) == IF IsInf(a) THEN a[2] ELSE Sign(a[2])

FNeg(a) == IF IsNaN(a) THEN NaN ELSE <<a[1], -a[2]>>

\* f64 addition.
FAdd(a, b) ==
    IF IsNaN(a) \/ IsNaN(b) THEN NaN
    ELSE IF IsInf(a) /\ IsInf(b) THEN (IF a[2] = b[2] THEN a ELSE NaN)
    ELSE IF IsInf(a) THEN a
    ELSE IF IsInf(b) THEN b
    ELSE Round(a[2] + b[2], 1)

\* f64 subtraction.
FSub(a, b) == FAdd(a, FNeg(b))

\* f64 multiplication.
FMul(a, b) ==
    IF IsNaN(a) \/ IsNaN(b) THEN NaN
    ELSE IF IsInf(a) \/ IsInf(b)
         THEN (IF SignOf(a) = 0 \/ SignOf(b) = 0 THEN NaN
               ELSE <<"inf", SignOf(a) * SignOf(b)>>)
    ELSE Round(a[2] * b[2], One)

\* f64 division.  A zero divisor is +0: the difference of two equal finite
\* values, neither of them -0.0.
FDiv(a, b) ==
    IF IsNaN(a) \/ IsNaN(b) THEN NaN
    ELSE IF IsInf(a) THEN (IF IsInf(b) THEN NaN
                           ELSE <<"inf", a[2] * (IF b[2] < 0 THEN -1 ELSE 1)>>)
    ELSE IF IsInf(b) THEN Zero
    ELSE IF b[2] = 0 THEN (IF a[2] = 0 THEN NaN ELSE <<"inf", Sign(a[2])>>)
    ELSE Round(Sign(b[2]) * a[2] * One, Abs(b[2]))

\* f64 comparison a <= b: false when either is NaN.
FLe(a, b) ==
    IF IsNaN(a) \/ IsNaN(b) THEN FALSE
    ELSE IF IsInf(a) THEN (a[2] = -1 \/ a = b)
    ELSE IF IsInf(b) THEN b[2] = 1
    ELSE a[2] <= b[2]

\* f64 comparison a < b: false when either is NaN.
FLt(a, b) ==
    IF IsNaN(a) \/ IsNaN(b) THEN FALSE
    ELSE IF IsInf(a) THEN (a[2] = -1 /\ a # b)
    ELSE IF IsInf(b) THEN b[2] = 1
    ELSE a[2] < b[2]

(***************************************************************************)
(* lib.rs                                                                  *)
(***************************************************************************)

\* What a call ends in when a slice index is out of bounds: the thread
\* panics and the call returns no value.
Panic == <<"panic", 0>>

\* The bounds check of the slice index expression knots[j]; j is a usize.
InBounds(knots, j) == j < Len(knots)

\* knots[j], for j in bounds (Rust slices are indexed from 0).
At(knots, j) == knots[j + 1]

\* Faulty variants of the code's expressions stand before the expression
\* they vary; each property below is checked to tell one from the code.

\* The degree-0 branch with a closed interval: x < knots[i + 1] as <=.
indicator_closed(i, x, knots) ==
    IF ~InBounds(knots, i) THEN Panic
    ELSE IF FLe(At(knots, i), x)
         THEN (IF ~InBounds(knots, i + 1) THEN Panic
               ELSE IF FLe(x, At(knots, i + 1)) THEN Fin(One) ELSE Zero)
         ELSE Zero

\* The degree-0 branch without the test x < knots[i + 1].
indicator_unbounded(i, x, knots) ==
    IF ~InBounds(knots, i) THEN Panic
    ELSE IF FLe(At(knots, i), x)
         THEN (IF ~InBounds(knots, i + 1) THEN Panic ELSE Fin(One))
         ELSE Zero

\* The degree-0 branch reading both knots before it compares.
indicator_eager(i, x, knots) ==
    IF ~InBounds(knots, i) \/ ~InBounds(knots, i + 1) THEN Panic
    ELSE IF FLe(At(knots, i), x) /\ FLt(x, At(knots, i + 1)) THEN Fin(One)
    ELSE Zero

\* lib.rs:4-8, the degree-0 branch.  && does not evaluate knots[i + 1] when
\* knots[i] <= x is false.
indicator(i, x, knots) ==
    IF ~InBounds(knots, i) THEN Panic
    ELSE IF FLe(At(knots, i), x)
         THEN (IF ~InBounds(knots, i + 1) THEN Panic
               ELSE IF FLt(x, At(knots, i + 1)) THEN Fin(One) ELSE Zero)
         ELSE Zero

\* The left coefficient with its numerator as knots[i] - x.
left_coefficient_flipped(i, k, x, knots) ==
    IF ~InBounds(knots, i) \/ ~InBounds(knots, i + k) THEN Panic
    ELSE FDiv(FSub(At(knots, i), x), FSub(At(knots, i + k), At(knots, i)))

\* The left coefficient with a zero denominator special-cased to 0.
left_coefficient_guarded(i, k, x, knots) ==
    IF ~InBounds(knots, i) \/ ~InBounds(knots, i + k) THEN Panic
    ELSE IF FSub(At(knots, i + k), At(knots, i)) = Zero THEN Zero
    ELSE FDiv(FSub(x, At(knots, i)), FSub(At(knots, i + k), At(knots, i)))

\* lib.rs:10.
left_coefficient(i, k, x, knots) ==
    IF ~InBounds(knots, i) \/ ~InBounds(knots, i + k) THEN Panic
    ELSE FDiv(FSub(x, At(knots, i)), FSub(At(knots, i + k), At(knots, i)))

\* The right coefficient reading one knot further, knots[i + k + 2].
right_coefficient_far(i, k, x, knots) ==
    IF ~InBounds(knots, i + k + 2) \/ ~InBounds(knots, i + 1) THEN Panic
    ELSE FDiv(FSub(At(knots, i + k + 2), x),
              FSub(At(knots, i + k + 2), At(knots, i + 1)))

\* lib.rs:13.
right_coefficient(i, k, x, knots) ==
    IF ~InBounds(knots, i + k + 1) \/ ~InBounds(knots, i + 1) THEN Panic
    ELSE FDiv(FSub(At(knots, i + k + 1), x),
              FSub(At(knots, i + k + 1), At(knots, i + 1)))

\* The result without its right term.
combine_left(lc, lr, rc, rr) == FMul(lc, lr)

\* lib.rs:16.
combine(lc, lr, rc, rr) == FAdd(FMul(lc, lr), FMul(rc, rr))

\* lib.rs:2-18.  The statements run in the order of the source, and the
\* first one that panics ends the call.
RECURSIVE basis_activation(_, _, _, _)
basis_activation(i, k, x, knots) ==
    IF k = 0 THEN indicator(i, x, knots)
    ELSE LET lc == left_coefficient(i, k, x, knots)
             lr == basis_activation(i, k - 1, x, knots)
             rc == right_coefficient(i, k, x, knots)
             rr == basis_activation(i + 1, k - 1, x, knots)
         IN  IF lc = Panic \/ lr = Panic \/ rc = Panic \/ rr = Panic
             THEN Panic
             ELSE combine(lc, lr, rc, rr)

\* The loop body with = for +=.
accumulate_overwrite(result, c, b) == FMul(c, b)

\* lib.rs:24, one pass of the loop body.
accumulate(result, c, b) == FAdd(result, FMul(c, b))

\* lib.rs:23-25, the loop from index i on.
RECURSIVE spline_loop(_, _, _, _, _, _)
spline_loop(i, result, x, control_points, knots, degree) ==
    IF i >= Len(control_points) THEN result
    ELSE LET b == basis_activation(i, degree, x, knots)
         IN  IF b = Panic THEN Panic
             ELSE spline_loop(i + 1, accumulate(result, control_points[i + 1], b),
                              x, control_points, knots, degree)

\* The accumulator starting at 1.
initial_result_one == Fin(One)

\* lib.rs:22, the accumulator's first value.
initial_result == Zero

\* lib.rs:21-27.
b_spline(x, control_points, knots, degree) ==
    spline_loop(0, initial_result, x, control_points, knots, degree)

(***************************************************************************)
(* The inputs.  Values are written in halves: Half(3) is 1.5.  A knot      *)
(* vector starts at 0 and grows by steps drawn from one of the step sets:  *)
(* strictly increasing vectors, uniform or not, and vectors with repeated  *)
(* knots, of every length up to MaxKnots.  The control points are all 1 or *)
(* pairwise different (5, 7, -4.5, ...).  No input is -0.0.                *)
(***************************************************************************)
MaxDegree == 2
MaxIndex == 2
MaxPoints == 3
MaxKnots == 6

Half(n) == Fin(n * (One \div 2))

StepSets == {{1, 3}, {0, 2}}

RECURSIVE StepVectors(_, _)
StepVectors(steps, n) ==
    IF n = 0 THEN {<<>>}
    ELSE IF n = 1 THEN {<<0>>}
    ELSE {Append(s, s[Len(s)] + d) : s \in StepVectors(steps, n - 1), d \in steps}

KnotVectors ==
    {[j \in 1..Len(s) |-> Half(s[j])] :
        s \in UNION {StepVectors(steps, n) : steps \in StepSets, n \in 0..MaxKnots}}

XValues == {Half(-2), Half(0), Half(1), Half(2), Half(3), Half(5), Half(17),
            PosInf, NaN}

PointPatterns == {[j \in 1..MaxPoints |-> Half(2)],
                  [j \in 1..MaxPoints |-> Half(IF j % 3 = 0 THEN -3 * j ELSE 4 * j + 6)]}
ControlPoints == {SubSeq(p, 1, n) : p \in PointPatterns, n \in 0..MaxPoints}

\* The arguments of the call, how far the call has come ("none" before it,
\* "running", then the name of the function once it has returned, or
\* "panicked"), the value returned, and, for the step-by-step execution of
\* basis_activation, the call stack and the number of recursive calls made.
VARIABLES index, degree, x, knots, control_points, called, ret, stack, calls

vars == <<index, degree, x, knots, control_points, called, ret, stack, calls>>

InitBasis ==
    /\ index \in 0..MaxIndex
    /\ degree \in 0..MaxDegree
    /\ x \in XValues
    /\ knots \in KnotVectors
    /\ control_points = <<>>
    /\ called = "none"
    /\ ret = Zero
    /\ stack = <<>>
    /\ calls = 0

\* A call of basis_activation(index, degree, x, &knots).
CallBasis ==
    /\ called = "none"
    /\ called' = "basis_activation"
    /\ ret' = basis_activation(index, degree, x, knots)
    /\ UNCHANGED <<index, degree, x, knots, control_points, stack, calls>>

SpecBasis == InitBasis /\ [][CallBasis]_vars

InitSpline ==
    /\ index = 0
    /\ degree \in 0..MaxDegree
    /\ x \in XValues
    /\ knots \in KnotVectors
    /\ control_points \in ControlPoints
    /\ called = "none"
    /\ ret = Zero
    /\ stack = <<>>
    /\ calls = 0

\* A call of b_spline(x, &control_points, &knots, degree).
CallSpline ==
    /\ called = "none"
    /\ called' = "b_spline"
    /\ ret' = b_spline(x, control_points, knots, degree)
    /\ UNCHANGED <<index, degree, x, knots, control_points, stack, calls>>

SpecSpline == InitSpline /\ [][CallSpline]_vars

(***************************************************************************)
(* basis_activation step by step: one frame of the call stack for each     *)
(* invocation in progress, with the place it has reached and its locals.   *)
(***************************************************************************)

StackKnotVectors ==
    {[j \in 1..Len(s) |-> Half(s[j])] :
        s \in UNION {StepVectors({0, 2}, n) : n \in 0..MaxKnots}}
StackXValues == {Half(-2), Half(3)}

\* The frame of a call basis_activation(i, k, x, knots) at its first
\* statement.
Frame(i, k) ==
    [i |-> i, k |-> k, pc |-> "entry",
     left_coefficient |-> Zero, left_recursion |-> Zero, right_coefficient |-> Zero]

\* lib.rs:11, the arguments of the first recursive call.
left_recursion_args(i, k) == <<i, k - 1>>

\* The second recursive call made at the index of the first.
right_recursion_args_same(i, k) == <<i, k - 1>>

\* lib.rs:14, the arguments of the second recursive call.
right_recursion_args(i, k) == <<i + 1, k - 1>>

Top == stack[Len(stack)]
Pop == SubSeq(stack, 1, Len(stack) - 1)
Running == called = "running" /\ stack # <<>>

InitStack ==
    /\ index \in 0..MaxIndex
    /\ degree \in 0..MaxDegree
    /\ x \in StackXValues
    /\ knots \in StackKnotVectors
    /\ control_points = <<>>
    /\ called = "none"
    /\ ret = Zero
    /\ stack = <<>>
    /\ calls = 0

\* The unwinding of a panic: no frame is left and no value is returned.
Unwind ==
    /\ called' = "panicked"
    /\ stack' = <<>>
    /\ UNCHANGED <<ret, calls>>

\* A return of value v from the frame on top: to the caller's frame, or
\* out of the outermost call.
ReturnValue(v) ==
    /\ ret' = v
    /\ stack' = Pop
    /\ called' = IF Len(stack) = 1 THEN "basis_activation" ELSE called
    /\ UNCHANGED calls

\* The outermost call basis_activation(index, degree, x, &knots) is made.
Enter ==
    /\ called = "none"
    /\ called' = "running"
    /\ stack' = <<Frame(index, degree)>>
    /\ UNCHANGED <<index, degree, x, knots, control_points, ret, calls>>

\* lib.rs:3-9: the degree-0 branch returns without calling.
BaseCase ==
    /\ Running /\ Top.pc = "entry" /\ Top.k = 0
    /\ LET v == indicator(Top.i, x, knots)
       IN  IF v = Panic THEN Unwind ELSE ReturnValue(v)
    /\ UNCHANGED <<index, degree, x, knots, control_points>>

\* lib.rs:10-11: the left coefficient, then the first recursive call.
CallLeft ==
    /\ Running /\ Top.pc = "entry" /\ Top.k > 0
    /\ LET v == left_coefficient(Top.i, Top.k, x, knots)
           a == left_recursion_args(Top.i, Top.k)
       IN  IF v = Panic THEN Unwind
           ELSE /\ stack' = Append(
                        [stack EXCEPT ![Len(stack)].pc = "left",
                                      ![Len(stack)].left_coefficient = v],
                        Frame(a[1], a[2]))
                /\ calls' = calls + 1
                /\ UNCHANGED <<called, ret>>
    /\ UNCHANGED <<index, degree, x, knots, control_points>>

\* lib.rs:11-14: the first call has returned; the right coefficient, then
\* the second recursive call.
CallRight ==
    /\ Running /\ Top.pc = "left"
    /\ LET v == right_coefficient(Top.i, Top.k, x, knots)
           a == right_recursion_args(Top.i, Top.k)
       IN  IF v = Panic THEN Unwind
           ELSE /\ stack' = Append(
                        [stack EXCEPT ![Len(stack)].pc = "right",
                                      ![Len(stack)].left_recursion = ret,
                                      ![Len(stack)].right_coefficient = v],
                        Frame(a[1], a[2]))
                /\ calls' = calls + 1
                /\ UNCHANGED <<called, ret>>
    /\ UNCHANGED <<index, degree, x, knots, control_points>>

\* lib.rs:14-17: the second call has returned; the result is returned.
Return ==
    /\ Running /\ Top.pc = "right"
    /\ ReturnValue(combine(Top.left_coefficient, Top.left_recursion,
                           Top.right_coefficient, ret))
    /\ UNCHANGED <<index, degree, x, knots, control_points>>

NextStack == Enter \/ BaseCase \/ CallLeft \/ CallRight \/ Return

SpecStack == InitStack /\ [][NextStack]_vars

\* The step-by-step execution ends as the operator basis_activation says.
StackAgreesWithOperator ==
    /\ called = "basis_activation" =>
           ret = basis_activation(index, degree, x, knots)
    /\ called = "panicked" => basis_activation(index, degree, x, knots) = Panic

(***************************************************************************)
(* Properties of basis_activation, checked under SpecBasis.                *)
(***************************************************************************)

BasisCalled == called = "basis_activation"

\* Every index the call can read is in bounds.
BasisInBounds == index + degree + 1 < Len(knots)

\* v lies in the half-open interval [lo, hi) of the real line; lo and hi
\* are finite, and neither an infinity nor NaN lies in such an interval.
InHalfOpen(v, lo, hi) == IsFin(v) /\ lo[2] <= v[2] /\ v[2] < hi[2]

\* C1: for degree 0 and i + 1 < knots.len(), the call returns exactly 1.0
\* when knots[i] <= x < knots[i+1] and exactly 0.0 otherwise; x equal to
\* knots[i] is inside the interval and x equal to knots[i+1] is outside.
C1_BaseCaseIndicator ==
    (BasisCalled /\ degree = 0 /\ index + 1 < Len(knots)) =>
        ret = IF InHalfOpen(x, At(knots, index), At(knots, index + 1))
              THEN Fin(One) ELSE Zero

C1_Witness ==
    /\ BasisCalled /\ degree = 0 /\ index + 1 < Len(knots)
    /\ x = At(knots, index)
    /\ ret = Fin(One)

\* The Cox-de Boor recursion as the specification writes it, in f64
\* arithmetic.
RECURSIVE CoxDeBoor(_, _, _, _)
CoxDeBoor(i, k, v, t) ==
    IF k = 0
    THEN (IF InHalfOpen(v, At(t, i), At(t, i + 1)) THEN Fin(One) ELSE Zero)
    ELSE FAdd(FMul(FDiv(FSub(v, At(t, i)), FSub(At(t, i + k), At(t, i))),
                   CoxDeBoor(i, k - 1, v, t)),
              FMul(FDiv(FSub(At(t, i + k + 1), v),
                        FSub(At(t, i + k + 1), At(t, i + 1))),
                   CoxDeBoor(i + 1, k - 1, v, t)))

\* Whether a denominator of the recursion for basis (i, k) is zero at some
\* level.
RECURSIVE ZeroDenominator(_, _, _)
ZeroDenominator(i, k, t) ==
    /\ k > 0
    /\ \/ At(t, i + k) = At(t, i)
       \/ At(t, i + k + 1) = At(t, i + 1)
       \/ ZeroDenominator(i, k - 1, t)
       \/ ZeroDenominator(i + 1, k - 1, t)

\* C2: for degree k > 0, indices in bounds and non-zero denominators, the
\* call returns the value of the Cox-de Boor recursion: the left term
\* ((x - knots[i]) / (knots[i+k] - knots[i])) * N(i, k-1) plus the right
\* term ((knots[i+k+1] - x) / (knots[i+k+1] - knots[i+1])) * N(i+1, k-1).
C2_CoxDeBoorRecursion ==
    (BasisCalled /\ degree > 0 /\ BasisInBounds
        /\ ~ZeroDenominator(index, degree, knots)) =>
        ret = CoxDeBoor(index, degree, x, knots)

C2_Witness ==
    /\ BasisCalled /\ degree = 2 /\ BasisInBounds
    /\ ~ZeroDenominator(index, degree, knots)
    /\ IsFin(ret) /\ ret[2] > 0 /\ ret[2] < One

\* C6 as claimed: a call with index + degree + 1 <= knots.len() returns a
\* value.
C6_Original ==
    (BasisCalled /\ index + degree + 1 <= Len(knots)) => ret # Panic

\* C6 (amended): a call with index + degree + 1 < knots.len() returns a
\* value; a call fails only by an out-of-bounds knot access, and only if
\* index + degree + 1 >= knots.len().
C6_ReturnsWhenInBounds ==
    (BasisCalled /\ index + degree + 1 < Len(knots)) => ret # Panic

C6_Witness ==
    /\ BasisCalled /\ degree > 0 /\ index > 0
    /\ index + degree + 2 = Len(knots)
    /\ IsFin(ret)

\* Whether every coefficient computed by the recursion for basis (i, k) is
\* finite.
RECURSIVE CoefficientsFinite(_, _, _, _)
CoefficientsFinite(i, k, v, t) ==
    \/ k = 0
    \/ /\ IsFin(left_coefficient(i, k, v, t))
       /\ IsFin(right_coefficient(i, k, v, t))
       /\ CoefficientsFinite(i, k - 1, v, t)
       /\ CoefficientsFinite(i + 1, k - 1, v, t)

StrictlyIncreasing(t) == \A j \in 1..(Len(t) - 1) : t[j][2] < t[j + 1][2]

\* x is outside the support [knots[i], knots[i+k+1]) of basis (i, k).
OutsideSupport(i, k, v, t) == ~InHalfOpen(v, At(t, i), At(t, i + k + 1))

\* The indices whose basis function of degree k is not 0.0 at v.
Contributing(k, v, t) ==
    {i \in 0..(Len(t) - k - 2) : basis_activation(i, k, v, t) # Zero}

\* C10 as claimed: for strictly increasing knots and indices in bounds, the
\* call returns 0 for every real x outside [knots[i], knots[i+k+1]).
C10_Original ==
    (BasisCalled /\ BasisInBounds /\ StrictlyIncreasing(knots)
        /\ IsFin(x) /\ OutsideSupport(index, degree, x, knots)) => ret = Zero

\* C10 (amended): for strictly increasing knots and indices in bounds, the
\* call returns 0 for every x outside [knots[i], knots[i+k+1]) for which
\* every coefficient the recursion computes is finite (x is finite and no
\* quotient overflows), and then at most degree + 1 indices have a basis
\* value other than 0.
C10_LocalSupport ==
    (BasisCalled /\ BasisInBounds /\ StrictlyIncreasing(knots)) =>
        /\ (OutsideSupport(index, degree, x, knots)
               /\ CoefficientsFinite(index, degree, x, knots)) => ret = Zero
        /\ (\A i \in 0..(Len(knots) - degree - 2) :
               CoefficientsFinite(i, degree, x, knots)) =>
               Cardinality(Contributing(degree, x, knots)) <= degree + 1

C10_Witness ==
    /\ BasisCalled /\ BasisInBounds /\ StrictlyIncreasing(knots)
    /\ degree > 0
    /\ IsFin(x) /\ OutsideSupport(index, degree, x, knots)
    /\ \A i \in 0..(Len(knots) - degree - 2) :
           CoefficientsFinite(i, degree, x, knots)
    /\ ret = Zero
    /\ Cardinality(Contributing(degree, x, knots)) = degree + 1

(***************************************************************************)
(* Properties of b_spline, checked under SpecSpline.                       *)
(***************************************************************************)

SplineCalled == called = "b_spline"

NPoints == Len(control_points)

\* The knot vector is long enough for the control points and the degree.
SplineInBounds == Len(knots) >= NPoints + degree + 1

\* The sum of control_points[i] * N(i, degree) over i in [0, n), each term
\* added once, in the order of the indices, in f64 arithmetic.
RECURSIVE WeightedSum(_, _, _, _, _)
WeightedSum(n, v, c, t, k) ==
    IF n = 0 THEN Zero
    ELSE FAdd(WeightedSum(n - 1, v, c, t, k),
              FMul(c[n], basis_activation(n - 1, k, v, t)))

\* C3: b_spline returns the sum over i in [0, N) of control_points[i] *
\* basis_activation(i, degree, x, knots); no control point gives 0; degree
\* 0, knots [0,1,2] and control points [5,7] give 5 at 0.5 and 7 at 1.5.
C3_WeightedSum ==
    (SplineCalled /\ ret # Panic) =>
        /\ ret = WeightedSum(NPoints, x, control_points, knots, degree)
        /\ NPoints = 0 => ret = Zero
        /\ (degree = 0 /\ knots = <<Half(0), Half(2), Half(4)>>
               /\ control_points = <<Half(10), Half(14)>>) =>
               /\ x = Half(1) => ret = Half(10)
               /\ x = Half(3) => ret = Half(14)

C3_Witness ==
    /\ SplineCalled
    /\ degree = 0 /\ knots = <<Half(0), Half(2), Half(4)>>
    /\ control_points = <<Half(10), Half(14)>>
    /\ x = Half(3) /\ ret = Half(14)

\* The inputs of the partition of unity: strictly increasing knots, one
\* more than N + degree of them, every control point 1.0, and x in
\* [knots[degree], knots[N]).
UnityInputs ==
    /\ NPoints > 0
    /\ Len(knots) = NPoints + degree + 1
    /\ StrictlyIncreasing(knots)
    /\ \A j \in 1..NPoints : control_points[j] = Fin(One)
    /\ InHalfOpen(x, At(knots, degree), At(knots, NPoints))

\* Whether every difference and every quotient computed by the recursion
\* for basis (i, k) is finite: nothing overflows.
RECURSIVE NoOverflow(_, _, _, _)
NoOverflow(i, k, v, t) ==
    \/ k = 0
    \/ /\ IsFin(FSub(v, At(t, i)))
       /\ IsFin(FSub(At(t, i + k), At(t, i)))
       /\ IsFin(FSub(At(t, i + k + 1), v))
       /\ IsFin(FSub(At(t, i + k + 1), At(t, i + 1)))
       /\ IsFin(left_coefficient(i, k, v, t))
       /\ IsFin(right_coefficient(i, k, v, t))
       /\ NoOverflow(i, k - 1, v, t)
       /\ NoOverflow(i + 1, k - 1, v, t)

\* The unit roundoff 2^-Precision of the format, as a count of 2^-FracBits
\* at 1.0.
UnitRoundoff == 2 ^ (FracBits - Precision)

\* The tolerance of the partition of unity: 5 * degree + N + 1 unit
\* roundoffs (for f64, far below the 1e-9 of the specification).
UnityTolerance == (5 * degree + NPoints + 1) * UnitRoundoff

\* C4 as claimed: on the inputs of the partition of unity b_spline returns
\* 1.0.
C4_Original == (SplineCalled /\ UnityInputs) => ret = Fin(One)

\* C4 (amended): on the inputs of the partition of unity, when no
\* difference or quotient overflows, b_spline returns a finite value within
\* the floating-point tolerance of 1.0; rounding keeps it from being 1.0
\* exactly.
C4_PartitionOfUnity ==
    (SplineCalled /\ UnityInputs
        /\ \A i \in 0..(NPoints - 1) : NoOverflow(i, degree, x, knots)) =>
        /\ IsFin(ret)
        /\ Abs(ret[2] - One) <= UnityTolerance

C4_Witness ==
    /\ SplineCalled /\ UnityInputs /\ degree = 2
    /\ \A i \in 0..(NPoints - 1) : NoOverflow(i, degree, x, knots)
    /\ IsFin(ret) /\ ret # Fin(One)

\* lo <= v on the extended real line, for a finite lo; false for NaN.
AtLeast(v, lo) == (IsFin(v) /\ lo[2] <= v[2]) \/ v = PosInf

\* C5 as claimed: b_spline returns a value when knots.len() >= N + degree +
\* 1, and panics when knots.len() < N + degree + 1.
C5_Original ==
    (SplineCalled /\ IsFin(x)) => (ret = Panic <=> ~SplineInBounds)

\* When b_spline panics.
PanicCase ==
    /\ NPoints >= 1
    /\ \/ degree >= 1 /\ Len(knots) < NPoints + degree + 1
       \/ degree = 0 /\ Len(knots) < NPoints
       \/ degree = 0 /\ Len(knots) = NPoints
              /\ AtLeast(x, At(knots, Len(knots) - 1))

\* C5 (amended): b_spline returns a value when knots.len() >= N + degree +
\* 1.  With fewer knots it panics, returning nothing, when N >= 1 and
\* degree >= 1, and for degree 0 when knots.len() < N or when knots.len() =
\* N and the last knot is <= x; it returns a value when N = 0, and for
\* degree 0 with N knots when the last knot is not <= x, since && then
\* does not read knots[i + 1].
C5_PanicCases ==
    SplineCalled =>
        /\ SplineInBounds => ret # Panic
        /\ ret = Panic <=> PanicCase

C5_Witness ==
    /\ SplineCalled /\ NPoints = 2 /\ degree = 0 /\ Len(knots) = 2
    /\ IsFin(x) /\ ret = Zero

\* C7: repeated knots never raise an error.  When the knot accesses are in
\* bounds and a denominator of the recursion of some basis i < N is zero,
\* that basis_activation returns a non-finite value (NaN or an infinity),
\* and so does b_spline.
C7_DegenerateKnots ==
    (SplineCalled /\ SplineInBounds) =>
        \A i \in 0..(NPoints - 1) :
            ZeroDenominator(i, degree, knots) =>
                /\ basis_activation(i, degree, x, knots) \in {NaN, PosInf, NegInf}
                /\ ret \in {NaN, PosInf, NegInf}

C7_Witness ==
    /\ SplineCalled /\ SplineInBounds /\ NPoints = 2 /\ degree = 2
    /\ ZeroDenominator(1, degree, knots) /\ ~ZeroDenominator(0, degree, knots)
    /\ IsFin(basis_activation(0, degree, x, knots))
    /\ IsFin(x)
    /\ ret \in {NaN, PosInf, NegInf}

\* The constants the control points are scaled by: 3, -0.5 and 1.5 (and 0,
\* in the second part of the property).
ScaleValues == {Half(6), Half(-1), Half(3)}

\* The control points, each multiplied by c.
Scaled(c) == [j \in 1..NPoints |-> FMul(c, control_points[j])]

\* b_spline of the scaled control points, and c times b_spline of the
\* control points as they are.
SplineOfScaled(c) == b_spline(x, Scaled(c), knots, degree)
ScaledSpline(c) == FMul(c, ret)

\* The basis values N(0, degree), ..., N(N - 1, degree) at x.
BasisValues ==
    [j \in 1..NPoints |-> basis_activation(j - 1, degree, x, knots)]

\* Every basis value is finite.
BasisFinite == \A j \in 1..NPoints : IsFin(BasisValues[j])

\* Every value of the two evaluations is finite.
AllFinite(c) ==
    IsFin(ret) /\ BasisFinite /\ IsFin(ScaledSpline(c)) /\ IsFin(SplineOfScaled(c))

CeilDiv(n, d) == (n + d - 1) \div d

\* |c| * sum of |control_points[i] * N(i, degree)| over i in [0, n), for
\* the basis values b, rounded up, as a count of 2^-FracBits.
RECURSIVE AbsSum(_, _, _)
AbsSum(c, n, b) ==
    IF n = 0 THEN 0
    ELSE AbsSum(c, n - 1, b)
         + CeilDiv(CeilDiv(Abs(c[2]) * Abs(control_points[n][2]), One)
                   * Abs(b[n][2]), One)

\* The sum of |N(i, degree)| over i in [0, n), for the basis values b, as
\* a count of 2^-FracBits.
RECURSIVE AbsBasisSum(_, _)
AbsBasisSum(n, b) ==
    IF n = 0 THEN 0 ELSE AbsBasisSum(n - 1, b) + Abs(b[n][2])

\* The rounding error the two evaluations can differ by, as a count of
\* 2^-FracBits: 4 (N + 1) u |c| sum |control_points[i] * N(i, degree)| for
\* the unit roundoff u = 2^-Precision, and N (1 + |c|) + sum |N(i, degree)|
\* + 1 times the smallest positive value for the products that underflow.
RoundingBound(c, b) ==
    4 * (NPoints + 1) * CeilDiv(AbsSum(c, NPoints, b), 2 ^ Precision)
    + CeilDiv(AbsBasisSum(NPoints, b), One)
    + NPoints * (1 + CeilDiv(Abs(c[2]), One)) + 1

\* C8 as claimed: scaling every control point by c scales the result by c,
\* here on the inputs for which every value computed is finite; and
\* all-zero control points give 0 for a real x when no denominator is zero.
C8_Original ==
    (SplineCalled /\ ret # Panic) =>
        /\ \A c \in ScaleValues :
               AllFinite(c) => SplineOfScaled(c) = ScaledSpline(c)
        /\ (IsFin(x) /\ \A i \in 0..(NPoints - 1) :
                             ~ZeroDenominator(i, degree, knots)) =>
               SplineOfScaled(Zero) = Zero

\* C8 (amended): scaling every control point by c scales the result by c up
\* to floating-point rounding: when every value computed is finite the two
\* differ by at most RoundingBound(c, .), and need not be equal.  All-zero
\* control points give 0.0 whenever every basis value is finite.
C8_LinearUpToRounding ==
    (SplineCalled /\ ret # Panic) =>
        LET b == BasisValues
            finite == \A j \in 1..NPoints : IsFin(b[j])
        IN  /\ (IsFin(ret) /\ finite) =>
                   \A c \in ScaleValues :
                       LET scaled == SplineOfScaled(c)
                       IN  (IsFin(scaled) /\ IsFin(ScaledSpline(c))) =>
                               Abs(scaled[2] - ScaledSpline(c)[2])
                                   <= RoundingBound(c, b)
            /\ finite => SplineOfScaled(Zero) = Zero

C8_Witness ==
    /\ SplineCalled /\ ret # Panic /\ NPoints = 3 /\ degree = 2
    /\ AllFinite(Half(6))
    /\ SplineOfScaled(Half(6)) # ScaledSpline(Half(6))
    /\ SplineOfScaled(Zero) = Zero

(***************************************************************************)
(* Properties of the recursion, checked under SpecStack.                   *)
(***************************************************************************)

\* Every frame but the outermost is a recursive call of the frame below
\* it: of a frame of degree k > 0 at index i, with the arguments (i, k - 1)
\* when that frame is at its first call and (i + 1, k - 1) when it is at
\* its second.  A frame of degree 0 has no frame above it.
CallStructure ==
    \A j \in 1..(Len(stack) - 1) :
        /\ stack[j].k > 0
        /\ stack[j].pc \in {"left", "right"}
        /\ stack[j + 1].k = stack[j].k - 1
        /\ stack[j + 1].i = IF stack[j].pc = "left" THEN stack[j].i
                            ELSE stack[j].i + 1

\* The steps a call of degree k takes from its first statement to its
\* return: 1 for degree 0, and 3 more than two calls of degree k - 1.
StepsOf(k) == 2 ^ (k + 2) - 3

\* The steps frame f and the calls it has yet to make still take.
StepsLeft(f) ==
    IF f.pc = "entry" THEN StepsOf(f.k)
    ELSE IF f.pc = "left" THEN 2 + StepsOf(f.k - 1)
    ELSE 1

RECURSIVE SumStepsLeft(_)
SumStepsLeft(n) == IF n = 0 THEN 0 ELSE SumStepsLeft(n - 1) + StepsLeft(stack[n])

\* The steps the outermost call still takes.
Rank == IF called = "none" THEN StepsOf(degree) + 1 ELSE SumStepsLeft(Len(stack))

\* A call in progress has a statement to run next.
Progress ==
    called = "running" =>
        /\ stack # <<>>
        /\ Top.k >= 0
        /\ Top.pc \in {"entry", "left", "right"}

\* C9 as claimed: a call that has returned made 2^degree recursive calls.
C9_Original ==
    called = "basis_activation" => calls = 2 ^ degree

\* C9 (amended): every call of basis_activation with its indices in bounds
\* returns: it never panics, it always has a next statement to run, and
\* every step takes one off the finite number of steps left.  A call of
\* degree k > 0 calls itself twice, with (index, k - 1) and (index + 1,
\* k - 1), a call of degree 0 not at all, and a call that has returned made
\* 2^(degree+1) - 2 recursive calls.
C9_RecursionTerminates ==
    /\ [](/\ CallStructure
          /\ Progress
          /\ Rank >= 0
          /\ BasisInBounds => called # "panicked"
          /\ called = "basis_activation" =>
                 (Rank = 0 /\ calls = 2 ^ (degree + 1) - 2))
    /\ [][Rank' = Rank - 1 \/ called' = "panicked"]_vars

C9_Witness ==
    called = "basis_activation" /\ degree = 2 /\ calls = 6 /\ IsFin(ret)
====
